---- MODULE Spec2Model ----
(***************************************************************************)
(* Model of the Hong Kong 97 graphics codec: the decompressor of           *)
(* pydec3.py / pydec4.py (and its copy inside pyenc4.py), the compressors  *)
(* of pyenc4.py and pyenc5.py, and the round-trip verifier of pyenc4.py.   *)
(* Byte buffers are sequences of 0..255; pointers keep the 0-based values  *)
(* of the Python code and index sequences through At.                      *)
(***************************************************************************)
EXTENDS Integers, Sequences, FiniteSets, TLC

VARIABLES
    mode,             \* "roundtrip": compress then decompress; "decode": decompress a given buffer
    encoder,          \* which compress_data runs: "pyenc4" or "pyenc5"
    decoder,          \* which decompress_data runs: "pydec3" (= pydec4) or "pyenc4"
    pc,               \* position of the run
    data,             \* compress_data: the input bytes
    compressed,       \* compress_data: the stream built so far
    output_buffer,    \* compress_data: shadow of the decompressed output
    literal_buffer,   \* compress_data: pending literal bytes
    pos,              \* compress_data: source position
    best_match_len,   \* compress_data: length of the committed match
    best_match_pos,   \* compress_data: position of the committed match
    final_offset,     \* compress_data: offset of the match as tested for admissibility
    best_match_offset,\* compress_data: offset of the committed match, after the flush
    enc_error,        \* "none" or the exception compress_data raised
    compressed_data,  \* decompress_data: the buffer it is given
    decompressed_size,\* decompress_data: size declared by the header
    in_ptr,           \* decompress_data: cursor in stream = compressed_data[2:]
    out_buffer,       \* decompress_data: output buffer
    out_ptr,          \* decompress_data: output cursor
    dec_log,          \* decompress_data: the commands read so far, with their fields
    dec_result,       \* what decompress_data returned (NoResult before / on error)
    dec_error,        \* "none" or the exception decompress_data raised
    verified,         \* result of verify_compression ("pending" before)
    prev_call,        \* outcome of the previous decompress_data call on the same buffer
    rom_data,         \* the ROM bytearray the injection glue writes into
    rom_error,        \* "none" or the exception the last injected item raised
    rom_items,        \* number of items of the batch processed so far
    char_index,       \* text tools: font-table index of the character (-1 before)
    final_code,       \* text tools: the code encode_text_block emits for it
    lookup_code       \* text tools: the index dump_all_text looks the code up at

vars == <<mode, encoder, decoder, pc, data, compressed, output_buffer,
          literal_buffer, pos, best_match_len, best_match_pos, enc_error,
          compressed_data, decompressed_size, in_ptr, out_buffer, out_ptr,
          dec_log, dec_result, dec_error, verified, final_offset,
          best_match_offset, prev_call, rom_data, rom_error, rom_items,
          char_index, final_code, lookup_code>>

encVars == <<data, compressed, output_buffer, literal_buffer, pos,
             best_match_len, best_match_pos, final_offset, best_match_offset,
             enc_error>>

decVars == <<compressed_data, decompressed_size, in_ptr, out_buffer, out_ptr,
             dec_log, dec_result, dec_error>>

\* what lives outside one compress_data / decompress_data call
outerVars == <<prev_call, rom_data, rom_error, rom_items,
               char_index, final_code, lookup_code>>

\* no character went through the text tools
TextIdle == char_index = -1 /\ final_code = -1 /\ lookup_code = -1

(***************************************************************************)
(* Bounds of the model                                                     *)
(***************************************************************************)
\* longest opcode stream (after the header) of a crafted buffer
MaxStream == 4
\* largest low header byte of a crafted buffer
MaxDecl == 12
\* longest tail appended to each input prefix of the compressor
MaxSuffix == 4
\* compress_data's loop is stepped only for inputs up to this length
MaxEncLen == 64
\* length of the ROM buffer of the injection runs
MaxRom == 8
\* number of items of an injection batch
MaxItems == 2
\* longest tile or palette data of an injected item
MaxPayload == 2

(***************************************************************************)
(* Python sequence and integer helpers                                     *)
(***************************************************************************)
Min2(a, b) == IF a <= b THEN a ELSE b
Max2(a, b) == IF a >= b THEN a ELSE b
Min3(a, b, c) == Min2(a, Min2(b, c))

\* s[i] for a 0-based index i
At(s, i) == s[i + 1]

\* s[lo:hi] for 0 <= lo
Slice(s, lo, hi) ==
    LET h == Min2(hi, Len(s))
    IN  IF lo >= h THEN <<>> ELSE SubSeq(s, lo + 1, h)

\* buf after buf[lo:hi] = src
SliceAssign(buf, lo, hi, src) ==
    LET l == Min2(lo, Len(buf))
        h == Max2(Min2(hi, Len(buf)), l)
    IN  SubSeq(buf, 1, l) \o src \o SubSeq(buf, h + 1, Len(buf))

\* bytearray(n)
Zeros(n) == [i \in 1..n |-> 0]

Run(b, n) == [i \in 1..n |-> b]

\* a & b, bit by bit from the lowest
BitAndOf[a \in Nat, b \in Nat] ==
    IF a = 0 \/ b = 0 THEN 0
    ELSE (a % 2) * (b % 2) + 2 * BitAndOf[a \div 2, b \div 2]

BitAnd(a, b) == BitAndOf[a, b]

\* a | b, bit by bit from the lowest
BitOrOf[a \in Nat, b \in Nat] ==
    IF a = 0 THEN b
    ELSE IF b = 0 THEN a
    ELSE Max2(a % 2, b % 2) + 2 * BitOrOf[a \div 2, b \div 2]

BitOr(a, b) == BitOrOf[a, b]

Shl(a, n) == a * (2 ^ n)
Shr(a, n) == a \div (2 ^ n)

\* int.from_bytes(b[0:2], 'little')
FromBytesLittle(b) == BitOr(At(b, 0), Shl(At(b, 1), 8))

\* n.to_bytes(2, 'little') for 0 <= n <= 0xFFFF
ToBytesLittle(n) == <<BitAnd(n, 255), BitAnd(Shr(n, 8), 255)>>

(***************************************************************************)
(* decompress_data: command byte decoding                                  *)
(***************************************************************************)
\* variant of RotateLeft: a plain shift, the carry is not rotated in
RotateLeftNoCarry(r) ==
    [temp  |-> BitAnd(Shl(r.temp, 1), 255),
     carry |-> BitAnd(Shr(r.temp, 7), 1)]

\* the 8-bit register and the carry flag
RotateArgs == [temp : 0..255, carry : 0..1]

\* one rotate-left-through-carry step on the 8-bit register r.temp:
\* new_carry = (temp >> 7) & 1; temp = ((temp << 1) & 0xFF) | carry; carry = new_carry
RotateLeftOf[r \in RotateArgs] ==
    [temp  |-> BitOr(BitAnd(Shl(r.temp, 1), 255), r.carry),
     carry |-> BitAnd(Shr(r.temp, 7), 1)]

RotateLeft(r) == RotateLeftOf[r]

\* cmd_stored: the command byte after two rotations
CmdStored(c) == RotateLeft(RotateLeft([temp |-> c, carry |-> 0])).temp

\* first_jump: the low two bits of the register after the third rotation, doubled
FirstJump(c) ==
    Shl(BitAnd(RotateLeft(RotateLeft(RotateLeft([temp |-> c, carry |-> 0]))).temp, 3), 1)

\* the while True loop: rotate, leave when the carry is clear, else a_reg += 2
RECURSIVE SecondJumpLoop(_, _)
SecondJumpTest(r, a_reg) ==
    IF r.carry = 0 THEN a_reg ELSE SecondJumpLoop(r, a_reg + 2)

SecondJumpLoop(r, a_reg) == SecondJumpTest(RotateLeft(r), a_reg)

SecondJump(c) == SecondJumpLoop([temp |-> CmdStored(c), carry |-> 0], 0)

CopyForms == {"ShortCopy", "MedCopy", "LongCopy", "ExtCopy"}
LiteralForms == {"ShortLiteral", "LongLiteral"}

\* variant of FormFromJumps: the long literal taken for second_jump = 4 only
FormFromJumpsExact(fj, sj) ==
    IF fj = 0 THEN "ShortCopy"
    ELSE IF fj = 2 THEN "MedCopy"
    ELSE IF fj = 4 THEN "LongCopy"
    ELSE IF fj = 6 THEN
        (IF sj = 0 THEN "ExtCopy"
         ELSE IF sj = 2 THEN "ShortLiteral"
         ELSE IF sj = 4 THEN "LongLiteral"
         ELSE "NoOp")
    ELSE "Unknown"

\* the form the if/elif chain selects from first_jump and second_jump
FormFromJumps(fj, sj) ==
    IF fj = 0 THEN "ShortCopy"
    ELSE IF fj = 2 THEN "MedCopy"
    ELSE IF fj = 4 THEN "LongCopy"
    ELSE IF fj = 6 THEN
        (IF sj = 0 THEN "ExtCopy"
         ELSE IF sj = 2 THEN "ShortLiteral"
         ELSE IF sj >= 4 THEN "LongLiteral"
         ELSE "NoOp")
    ELSE "Unknown"

FormOf(c) == FormFromJumps(FirstJump(c), SecondJump(c))

\* number of bytes the form reads after the command byte
ExtraBytes(form) ==
    CASE form = "MedCopy" -> 1
      [] form = "LongCopy" -> 1
      [] form = "ExtCopy" -> 2
      [] form = "LongLiteral" -> 1
      [] OTHER -> 0

\* variant of Instr: the cursor left on the command byte
InstrStale(form, ok, length, offset, ip) ==
    [form |-> form, ok |-> ok, length |-> length, offset |-> offset, in_ptr |-> ip - 1]

Instr(form, ok, length, offset, ip) ==
    [form |-> form, ok |-> ok, length |-> length, offset |-> offset, in_ptr |-> ip]

\* variant of ExtCopyLength: bit 4 of the command placed one bit too high
ExtCopyLengthWide(c, b1) ==
    BitOr(BitOr(Shl(BitAnd(Shr(c, 4), 1), 9), Shl(BitAnd(Shr(b1, 4), 15), 4)),
          BitAnd(c, 15)) + 7

\* length of an ExtCopy from the command byte and its first extra byte
ExtCopyLength(c, b1) ==
    BitOr(BitOr(Shl(BitAnd(Shr(c, 4), 1), 8), Shl(BitAnd(Shr(b1, 4), 15), 4)),
          BitAnd(c, 15)) + 7

\* variant of LongLiteralHigh: the carry of b1 + 0x11 is dropped
LongLiteralHighNoCarry(c, temp_len) == BitAnd(c, 3)

\* len_high of a LongLiteral: cmd & 3, plus the carry of b1 + 0x11
LongLiteralHigh(c, temp_len) == BitAnd(c, 3) + (IF temp_len > 255 THEN 1 ELSE 0)

\* length of a LongLiteral from the command byte and temp_len = b1 + 0x11
LongLiteralLength(c, temp_len) ==
    BitOr(Shl(LongLiteralHigh(c, temp_len), 8), BitAnd(temp_len, 255))

\* the fields of an instruction of the given form whose extra bytes are all
\* present at stream[ip]
DecodeFields(form, c, stream, ip) ==
    CASE form = "ShortCopy" ->
             Instr(form, TRUE, BitAnd(c, 3) + 3, Shr(c, 2), ip)
      [] form = "MedCopy" ->
             Instr(form, TRUE, BitAnd(c, 3) + 3,
                   BitOr(Shl(BitAnd(Shr(c, 2), 15), 8), At(stream, ip)), ip + 1)
      [] form = "LongCopy" ->
             Instr(form, TRUE, BitAnd(Shr(c, 2), 15) + 7,
                   BitOr(Shl(BitAnd(c, 3), 8), At(stream, ip)), ip + 1)
      [] form = "ExtCopy" ->
             Instr(form, TRUE, ExtCopyLength(c, At(stream, ip)),
                   BitOr(Shl(BitAnd(At(stream, ip), 15), 8), At(stream, ip + 1)),
                   ip + 2)
      [] form = "ShortLiteral" ->
             Instr(form, TRUE, BitAnd(c, 15) + 1, 0, ip)
      [] form = "LongLiteral" ->
             Instr(form, TRUE, LongLiteralLength(c, At(stream, ip) + 17), 0, ip + 1)
      [] OTHER ->
             Instr(form, TRUE, 0, 0, ip)

\* variant of DecodeForm: a command whose extra bytes are missing is taken as
\* the end of the stream instead of an error
DecodeFormTolerant(form, c, stream, ip) ==
    IF form = "Unknown" THEN Instr(form, FALSE, 0, 0, ip)
    ELSE IF Len(stream) - ip < ExtraBytes(form)
    THEN Instr(form, TRUE, 0, 0, Len(stream))
    ELSE DecodeFields(form, c, stream, ip)

\* The instruction of the given form whose command byte c was read and whose
\* extra bytes start at stream[ip].  ok = FALSE when the command has no form
\* (ValueError) or an extra byte is missing (IndexError); in_ptr is then the
\* value the cursor has when the exception is raised.
DecodeForm(form, c, stream, ip) ==
    IF form = "Unknown" THEN Instr(form, FALSE, 0, 0, ip)
    ELSE IF Len(stream) - ip < ExtraBytes(form)
    THEN Instr(form, FALSE, 0, 0, Len(stream))
    ELSE DecodeFields(form, c, stream, ip)

DecodeInstr(c, stream, ip) == DecodeForm(FormOf(c), c, stream, ip)

\* variant of CopyByte: a read before the start of the buffer gives 0
CopyByteZeroFill(buf, op, copy_src) ==
    [buf EXCEPT ![op + 1] = IF copy_src < 0 THEN 0 ELSE At(buf, copy_src)]

\* one pass of the copy loop body: one byte from copy_src to op in buf
CopyByte(buf, op, copy_src) ==
    [buf EXCEPT ![op + 1] = IF copy_src < 0 THEN 255 ELSE At(buf, copy_src)]

\* variant of CopyLoop: a bulk copy, every byte read from the buffer as it was
\* before the instruction
CopyLoopBulk(buf, op, copy_src, n) ==
    [i \in 1..Len(buf) |->
        IF i - 1 >= op /\ i - 1 < op + n
        THEN (IF copy_src + (i - 1 - op) < 0 THEN 255
              ELSE buf[copy_src + (i - 1 - op) + 1])
        ELSE buf[i]]

\* the byte-by-byte copy loop: n passes, in order, from copy_src to op in buf
\* (the passes op..op+n-1 are evaluated as two consecutive halves, the first
\* half before the second, which keeps the evaluation shallow and the order of
\* the passes unchanged; a pass never changes the length of buf)
RECURSIVE CopyLoop(_, _, _, _)
CopyLoop(buf, op, copy_src, n) ==
    IF n <= 0 THEN buf
    ELSE IF n = 1 THEN CopyByte(buf, op, copy_src)
    ELSE LET h == n \div 2
             first == CopyLoop(buf, op, copy_src, h)
         IN  IF Len(first) = Len(buf)
             THEN CopyLoop(first, op + h, copy_src + h, n - h)
             ELSE first

\* variant of CopyCount: the copy is not clamped to the declared size
CopyCountUnclamped(len, size, op) == len

\* number of bytes a copy of the given length writes at output position op
CopyCount(len, size, op) == Min2(len, size - op)

\* variant of ActualLen: the literal is not clamped to the bytes the stream has
ActualLenUnclamped(len, size, op, stream, ip) == Min2(len, size - op)

\* number of bytes a literal of the given length moves
ActualLen(len, size, op, stream, ip) == Min3(len, size - op, Len(stream) - ip)

(***************************************************************************)
(* compress_data                                                           *)
(***************************************************************************)
\* variant of TooLarge: the limit tested with >=
TooLargeOffByOne(d) == Len(d) >= 65535

\* len(data) > 0xFFFF: the input does not fit the 2-byte header
TooLarge(d) == Len(d) > 65535

\* variant of FlushChunks: chunks of at most 8 bytes
RECURSIVE FlushChunksHalf(_, _, _, _)
FlushChunksHalf(comp, outb, lit, lit_pos) ==
    IF lit_pos >= Len(lit) THEN [compressed |-> comp, output_buffer |-> outb]
    ELSE FlushChunksHalf(
             comp \o <<BitOr(224, BitAnd(Min2(8, Len(lit) - lit_pos) - 1, 15))>>
                  \o Slice(lit, lit_pos, lit_pos + Min2(8, Len(lit) - lit_pos)),
             outb \o Slice(lit, lit_pos, lit_pos + Min2(8, Len(lit) - lit_pos)),
             lit, lit_pos + Min2(8, Len(lit) - lit_pos))

\* flush_literals: the literal buffer leaves as ShortLiteral chunks of at most
\* 16 bytes, appended to the stream and to the shadow output
RECURSIVE FlushChunks(_, _, _, _)
FlushChunks(comp, outb, lit, lit_pos) ==
    IF lit_pos >= Len(lit) THEN [compressed |-> comp, output_buffer |-> outb]
    ELSE LET chunk_size == Min2(16, Len(lit) - lit_pos)
             c == BitOr(224, BitAnd(chunk_size - 1, 15))
             chunk_data == Slice(lit, lit_pos, lit_pos + chunk_size)
         IN  FlushChunks(comp \o <<c>> \o chunk_data, outb \o chunk_data,
                         lit, lit_pos + chunk_size)

FlushLiterals(comp, outb, lit) == FlushChunks(comp, outb, lit, 0)

\* the inner while loop counting equal bytes, from match_len up to max_len
\* (the passes match_len..max_len-1 are evaluated as two consecutive halves,
\* the second only when the first ran to its end, which keeps the evaluation
\* shallow and the order of the comparisons unchanged)
RECURSIVE MatchLen(_, _, _, _, _, _)
\* the second half of the passes, entered when the first half stopped at mid
MatchLenRest(outb, check_pos, d, p, first, mid, max_len) ==
    IF first < mid THEN first
    ELSE MatchLen(outb, check_pos, d, p, mid, max_len)

MatchLen(outb, check_pos, d, p, match_len, max_len) ==
    IF match_len >= max_len THEN match_len
    ELSE IF max_len - match_len = 1
    THEN (IF At(outb, check_pos + match_len) = At(d, p + match_len)
          THEN match_len + 1 ELSE match_len)
    ELSE MatchLenRest(outb, check_pos, d, p,
                      MatchLen(outb, check_pos, d, p, match_len,
                               match_len + (max_len - match_len) \div 2),
                      match_len + (max_len - match_len) \div 2, max_len)

MaxLenAt(outb, check_pos, d, p) ==
    Min3(263, Len(d) - p, Len(outb) - check_pos)

NoMatch == [len |-> 0, pos |-> -1]

\* the first-byte check of the scan: the newest position at or before check_pos,
\* inside the window, whose byte equals data[p]; one before the window when
\* there is none
SkipTo(outb, d, p, check_pos) ==
    LET search_start == Max2(0, Len(outb) - 4095)
        S == {q \in search_start..check_pos : At(outb, q) = At(d, p)}
    IN  IF S = {} THEN search_start - 1
        ELSE CHOOSE q \in S : \A r \in S : r <= q

\* pyenc4: linear scan from the newest byte of the shadow output backwards
RECURSIVE Scan4(_, _, _, _, _)
\* variant of Scan4Update: a match of the same length replaces the best match
Scan4UpdateTies(outb, d, p, check_pos, best, match_len) ==
    IF match_len >= best.len /\ match_len > 0
    THEN (IF match_len >= 263
          THEN [len |-> match_len, pos |-> check_pos]
          ELSE Scan4(outb, d, p, check_pos - 1, [len |-> match_len, pos |-> check_pos]))
    ELSE Scan4(outb, d, p, check_pos - 1, best)

\* the update of the best match with the match found at check_pos
Scan4Update(outb, d, p, check_pos, best, match_len) ==
    IF match_len > best.len
    THEN (IF match_len >= 263
          THEN [len |-> match_len, pos |-> check_pos]
          ELSE Scan4(outb, d, p, check_pos - 1, [len |-> match_len, pos |-> check_pos]))
    ELSE Scan4(outb, d, p, check_pos - 1, best)

Scan4(outb, d, p, check_pos, best) ==
    IF check_pos < Max2(0, Len(outb) - 4095) THEN best
    ELSE IF At(outb, check_pos) # At(d, p)
    THEN Scan4(outb, d, p, SkipTo(outb, d, p, check_pos - 1), best)
    ELSE Scan4Update(outb, d, p, check_pos, best,
                     MatchLen(outb, check_pos, d, p, 0, MaxLenAt(outb, check_pos, d, p)))

FindMatch4(outb, d, p) ==
    IF Len(outb) >= 3 /\ p + 3 <= Len(d)
    THEN Scan4(outb, d, p, Len(outb) - 1, NoMatch)
    ELSE NoMatch

\* bytearray.rfind(pat, start, end): the highest index i with
\* start <= i, i + len(pat) <= end and buf[i:i+len(pat)] = pat, or -1
RECURSIVE RFindFrom(_, _, _, _)
RFindFrom(buf, pat, start, i) ==
    IF i < start THEN -1
    ELSE IF Slice(buf, i, i + Len(pat)) = pat THEN i
    ELSE RFindFrom(buf, pat, start, i - 1)

RFind(buf, pat, start, end) ==
    RFindFrom(buf, pat, start, Min2(end, Len(buf)) - Len(pat))

\* pyenc5: rfind of the next three source bytes, each search ending where the
\* previous occurrence began
RECURSIVE Scan5(_, _, _, _, _)
\* the update of the best match with the match found at check_pos
Scan5Update(outb, d, p, check_pos, best, match_len) ==
    IF match_len > best.len
    THEN (IF match_len >= 263
          THEN [len |-> match_len, pos |-> check_pos]
          ELSE Scan5(outb, d, p, check_pos, [len |-> match_len, pos |-> check_pos]))
    ELSE Scan5(outb, d, p, check_pos, best)

\* the occurrence rfind returned, or the end of the search when it is -1
Scan5Found(outb, d, p, check_pos, best) ==
    IF check_pos = -1 THEN best
    ELSE Scan5Update(outb, d, p, check_pos, best,
                     MatchLen(outb, check_pos, d, p, 3, MaxLenAt(outb, check_pos, d, p)))

Scan5(outb, d, p, current_search_end, best) ==
    IF current_search_end <= Max2(0, Len(outb) - 4095) THEN best
    ELSE Scan5Found(outb, d, p,
                    RFind(outb, Slice(d, p, p + 3), Max2(0, Len(outb) - 4095),
                          current_search_end),
                    best)

FindMatch5(outb, d, p) ==
    IF Len(outb) >= 3 /\ p + 3 <= Len(d)
    THEN Scan5(outb, d, p, Len(outb), NoMatch)
    ELSE NoMatch

FindMatch(enc, outb, d, p) ==
    IF enc = "pyenc4" THEN FindMatch4(outb, d, p) ELSE FindMatch5(outb, d, p)

\* variant of FinalOffset: the pending literals are not counted
FinalOffsetCommitted(outb, lit, match_pos) == Len(outb) - match_pos - 1

\* final_offset: the offset the match will have once the pending literals
\* are flushed
FinalOffset(outb, lit, match_pos) == (Len(outb) + Len(lit)) - match_pos - 1

\* variant of MatchOffset: the offset counted from the byte after the match
\* position
MatchOffsetShort(outb, match_pos) == Len(outb) - match_pos - 2

\* best_match_offset: the offset of the match once the literals are flushed
MatchOffset(outb, match_pos) == Len(outb) - match_pos - 1

\* variant of CanBeEncoded: the three-byte form admitted up to offset 4096
CanBeEncodedWide(len, off) ==
    \/ len <= 6 /\ off <= 1023
    \/ len >= 7 /\ len <= 22 /\ off <= 1023
    \/ len >= 7 /\ len <= 263 /\ off <= 4096

CanBeEncoded(len, off) ==
    \/ len <= 6 /\ off <= 1023
    \/ len >= 7 /\ len <= 22 /\ off <= 1023
    \/ len >= 7 /\ len <= 263 /\ off <= 4095

\* variant of EmitCopy: the length field of the one-byte form without its bias of 3
EmitCopyNoBias(len, off) ==
    IF len <= 6 /\ off <= 15
    THEN <<BitOr(Shl(off, 2), BitAnd(len, 3))>>
    ELSE IF len <= 6 /\ off <= 1023
    THEN <<BitOr(BitOr(64, BitAnd(len - 3, 3)), Shl(BitAnd(Shr(off, 8), 15), 2)),
           BitAnd(off, 255)>>
    ELSE IF len <= 22 /\ off <= 1023
    THEN <<BitOr(BitOr(128, Shl(BitAnd(len - 7, 15), 2)), BitAnd(Shr(off, 8), 3)),
           BitAnd(off, 255)>>
    ELSE <<BitOr(192, BitAnd(len - 7, 15)),
           BitOr(BitAnd(len - 7, 240), BitAnd(Shr(off, 8), 15)),
           BitAnd(off, 255)>>

\* variant of EmitCopy: the one-byte form taken up to offset 16
EmitCopyWideShort(len, off) ==
    IF len <= 6 /\ off <= 16
    THEN <<BitOr(Shl(off, 2), BitAnd(len - 3, 3))>>
    ELSE IF len <= 6 /\ off <= 1023
    THEN <<BitOr(BitOr(64, BitAnd(len - 3, 3)), Shl(BitAnd(Shr(off, 8), 15), 2)),
           BitAnd(off, 255)>>
    ELSE IF len <= 22 /\ off <= 1023
    THEN <<BitOr(BitOr(128, Shl(BitAnd(len - 7, 15), 2)), BitAnd(Shr(off, 8), 3)),
           BitAnd(off, 255)>>
    ELSE <<BitOr(BitOr(192, BitAnd(len - 7, 15)), IF len - 7 >= 256 THEN 16 ELSE 0),
           BitOr(BitAnd(len - 7, 240), BitAnd(Shr(off, 8), 15)),
           BitAnd(off, 255)>>

\* variant of EmitCopy: bit 8 of the length of the three-byte form is not
\* stored in the command byte
EmitCopyNoBit8(len, off) ==
    IF len <= 6 /\ off <= 15
    THEN <<BitOr(Shl(off, 2), BitAnd(len - 3, 3))>>
    ELSE IF len <= 6 /\ off <= 1023
    THEN <<BitOr(BitOr(64, BitAnd(len - 3, 3)), Shl(BitAnd(Shr(off, 8), 15), 2)),
           BitAnd(off, 255)>>
    ELSE IF len <= 22 /\ off <= 1023
    THEN <<BitOr(BitOr(128, Shl(BitAnd(len - 7, 15), 2)), BitAnd(Shr(off, 8), 3)),
           BitAnd(off, 255)>>
    ELSE IF len <= 263 /\ off <= 4095
    THEN <<BitOr(192, BitAnd(len - 7, 15)),
           BitOr(BitAnd(len - 7, 240), BitAnd(Shr(off, 8), 15)),
           BitAnd(off, 255)>>
    ELSE <<>>

\* the bytes of the back-reference command for (len, off)
EmitCopy(len, off) ==
    IF len <= 6 /\ off <= 15
    THEN <<BitOr(Shl(off, 2), BitAnd(len - 3, 3))>>
    ELSE IF len <= 6 /\ off <= 1023
    THEN <<BitOr(BitOr(64, BitAnd(len - 3, 3)), Shl(BitAnd(Shr(off, 8), 15), 2)),
           BitAnd(off, 255)>>
    ELSE IF len <= 22 /\ off <= 1023
    THEN <<BitOr(BitOr(128, Shl(BitAnd(len - 7, 15), 2)), BitAnd(Shr(off, 8), 3)),
           BitAnd(off, 255)>>
    ELSE IF len <= 263 /\ off <= 4095
    THEN LET length_val == len - 7
             c0 == BitOr(192, BitAnd(length_val, 15))
             c == IF length_val >= 256 THEN BitOr(c0, 16) ELSE c0
             b1 == BitOr(BitAnd(length_val, 240), BitAnd(Shr(off, 8), 15))
         IN  <<c, b1, BitAnd(off, 255)>>
    ELSE <<>>

\* variant of AppendMatch: every pass reads the first byte of the match
AppendMatchFirst(outb, copy_src_start, i, len) ==
    outb \o [k \in 1..(len - i) |-> At(outb, copy_src_start)]

\* the matched bytes are appended to the shadow output one at a time, in order
\* (the passes i..len-1 are evaluated as two consecutive halves, the first half
\* before the second, which keeps the evaluation shallow; a pass lengthens the
\* shadow output by one byte)
RECURSIVE AppendMatch(_, _, _, _)
\* the second half of the passes, on the shadow output the first half left
AppendMatchRest(first, outb, copy_src_start, i, mid, len) ==
    IF Len(first) = Len(outb) + (mid - i)
    THEN AppendMatch(first, copy_src_start, mid, len)
    ELSE first

AppendMatch(outb, copy_src_start, i, len) ==
    IF i >= len THEN outb
    ELSE IF len - i = 1 THEN Append(outb, At(outb, copy_src_start + i))
    ELSE AppendMatchRest(AppendMatch(outb, copy_src_start, i, i + (len - i) \div 2),
                         outb, copy_src_start, i, i + (len - i) \div 2, len)

(***************************************************************************)
(* Inputs of the runs                                                      *)
(***************************************************************************)
SeqsUpTo(S, n) == UNION {[1..k -> S] : k \in 0..n}

\* bytes of the crafted streams: one command byte of every form
\* (0x00, 0x05 ShortCopy; 0x41 MedCopy; 0x8C LongCopy; 0xC0 ExtCopy;
\*  0xE0 ShortLiteral; 0xF0 LongLiteral), which also serve as extra bytes
\* and as literal payload
StreamBytes == {0, 5, 65, 140, 192, 224, 240}

\* headers of the crafted buffers, low byte first
Headers == {<<lo, 0>> : lo \in {0, 1, 2, 5, 11, MaxDecl}} \cup {<<0, 1>>}

CraftedBuffers ==
    {<<>>, <<5>>} \cup
    {h \o s : h \in Headers, s \in SeqsUpTo(StreamBytes, MaxStream)}

\* "ABB" followed by fourteen distinct bytes
Distinct17 == <<65, 66, 66, 67, 68, 69, 70, 71, 72, 73, 74, 75, 76, 77, 78, 79, 80>>

Prefixes ==
    {<<>>, SubSeq(Distinct17, 1, 16), Distinct17,
     Run(65, 16), Run(65, 20), Run(65, 52)}

EncInputs ==
    {p \o s : p \in Prefixes, s \in SeqsUpTo({65, 66}, MaxSuffix)}
    \cup {Run(0, 65534), Run(0, 65535), Run(0, 65536), Run(0, 65537)}

NoResult == [returned |-> FALSE, out |-> <<>>, size |-> -1]

\* decompress_data was not called before on this buffer
NoCall == [called |-> FALSE, result |-> NoResult, error |-> "none"]

Init ==
    /\ \/ /\ mode = "roundtrip"
          /\ encoder \in {"pyenc4", "pyenc5"}
          /\ decoder \in {"pydec3", "pyenc4"}
          /\ data \in EncInputs
          /\ compressed_data = <<>>
          /\ pc = "compress"
       \/ /\ mode = "decode"
          /\ encoder = "none"
          /\ decoder = "pydec3"
          /\ data = <<>>
          /\ compressed_data \in CraftedBuffers
          /\ pc = "decompress"
    /\ compressed = <<>>
    /\ output_buffer = <<>>
    /\ literal_buffer = <<>>
    /\ pos = 0
    /\ best_match_len = 0
    /\ best_match_pos = -1
    /\ enc_error = "none"
    /\ decompressed_size = 0
    /\ in_ptr = 0
    /\ out_buffer = <<>>
    /\ out_ptr = 0
    /\ dec_log = <<>>
    /\ dec_result = NoResult
    /\ dec_error = "none"
    /\ verified = "pending"
    /\ final_offset = -1
    /\ best_match_offset = -1
    /\ prev_call = NoCall
    /\ rom_data = <<>>
    /\ rom_error = "none"
    /\ rom_items = 0
    /\ TextIdle

(***************************************************************************)
(* compress_data, one action per step of its loop                          *)
(***************************************************************************)
\* entry: the size check, the header and the empty buffers
CompressEnter ==
    /\ pc = "compress"
    /\ IF TooLarge(data)
       THEN /\ enc_error' = "ValueError"
            /\ pc' = "done"
            /\ UNCHANGED <<compressed, output_buffer, literal_buffer, pos>>
       ELSE /\ compressed' = ToBytesLittle(Len(data))
            /\ output_buffer' = <<>>
            /\ literal_buffer' = <<>>
            /\ pos' = 0
            /\ pc' = "enc_loop"
            /\ UNCHANGED enc_error
    /\ UNCHANGED outerVars
    /\ UNCHANGED <<mode, encoder, decoder, data, best_match_len, best_match_pos,
                   final_offset, best_match_offset,
                   verified>>
    /\ UNCHANGED decVars

\* the match the search of this iteration ends with
BestMatch == FindMatch(encoder, output_buffer, data, pos)

Usable(m) ==
    /\ m.len >= 3
    /\ CanBeEncoded(m.len, FinalOffset(output_buffer, literal_buffer, m.pos))

InEncLoop ==
    /\ pc = "enc_loop"
    /\ pos < Len(data)
    /\ Len(data) <= MaxEncLen

\* flush_literals applied to the state of the call
FlushStep(f) ==
    /\ compressed' = f.compressed
    /\ output_buffer' = f.output_buffer
    /\ literal_buffer' = <<>>

CommitOf(m) ==
    /\ Usable(m)
    /\ best_match_len' = m.len
    /\ best_match_pos' = m.pos
    /\ final_offset' = FinalOffset(output_buffer, literal_buffer, m.pos)

\* the iteration of a usable match: the pending literals are flushed before
\* the command
CommitIteration ==
    /\ CommitOf(BestMatch)
    /\ FlushStep(FlushLiterals(compressed, output_buffer, literal_buffer))
    /\ best_match_offset' = MatchOffset(output_buffer', best_match_pos')
    /\ pc' = "enc_emit"
    /\ UNCHANGED outerVars
    /\ UNCHANGED <<mode, encoder, decoder, data, pos, enc_error, verified>>
    /\ UNCHANGED decVars

EncCommit == InEncLoop /\ CommitIteration

\* the back-reference command and the shadow copy of the matched bytes
EmitStep(off) ==
    /\ compressed' = compressed \o EmitCopy(best_match_len, off)
    /\ output_buffer' = AppendMatch(output_buffer, Len(output_buffer) - off - 1,
                                    0, best_match_len)

EncEmit ==
    /\ pc = "enc_emit"
    /\ EmitStep(best_match_offset)
    /\ pos' = pos + best_match_len
    /\ pc' = "enc_loop"
    /\ UNCHANGED outerVars
    /\ UNCHANGED <<mode, encoder, decoder, data, literal_buffer, best_match_len,
                   best_match_pos, final_offset, best_match_offset, enc_error, verified>>
    /\ UNCHANGED decVars

\* variant of BufferFull: the buffer is flushed one byte later
BufferFullLate(lit) == Len(lit) >= 17

\* len(literal_buffer) >= 16: the buffer is flushed
BufferFull(lit) == Len(lit) >= 16

\* no usable match: the current byte becomes a pending literal
LiteralFallback(m) ==
    /\ ~Usable(m)
    /\ best_match_len' = m.len
    /\ best_match_pos' = m.pos
    /\ final_offset' = IF m.len >= 3
                       THEN FinalOffset(output_buffer, literal_buffer, m.pos)
                       ELSE final_offset

\* the iteration without a usable match
LiteralIteration ==
    /\ LiteralFallback(BestMatch)
    /\ literal_buffer' = Append(literal_buffer, At(data, pos))
    /\ pos' = pos + 1
    /\ pc' = IF BufferFull(literal_buffer') THEN "enc_full" ELSE "enc_loop"
    /\ UNCHANGED outerVars
    /\ UNCHANGED <<mode, encoder, decoder, data, compressed, output_buffer,
                   best_match_offset, enc_error, verified>>
    /\ UNCHANGED decVars

EncLiteral == InEncLoop /\ LiteralIteration

\* the literal buffer reached 16 bytes
EncFlushFull ==
    /\ pc = "enc_full"
    /\ FlushStep(FlushLiterals(compressed, output_buffer, literal_buffer))
    /\ pc' = "enc_loop"
    /\ UNCHANGED outerVars
    /\ UNCHANGED <<mode, encoder, decoder, data, pos, best_match_len,
                   best_match_pos, final_offset, best_match_offset, enc_error, verified>>
    /\ UNCHANGED decVars

\* end of input: the last flush; the stream, followed by the bytes t that the
\* caller reads after it, goes to decompress_data
CompressReturnWith(t) ==
    /\ pc = "enc_loop"
    /\ pos >= Len(data)
    /\ FlushStep(FlushLiterals(compressed, output_buffer, literal_buffer))
    /\ compressed_data' = compressed' \o t
    /\ pc' = "decompress"
    /\ UNCHANGED outerVars
    /\ UNCHANGED <<mode, encoder, decoder, data, pos, best_match_len,
                   best_match_pos, final_offset, best_match_offset, enc_error, verified>>
    /\ UNCHANGED <<decompressed_size, in_ptr, out_buffer, out_ptr, dec_log,
                   dec_result, dec_error>>

\* verify_compression hands the stream alone to decompress_data
CompressReturn == CompressReturnWith(<<>>)

(***************************************************************************)
(* decompress_data, one action per instruction                             *)
(***************************************************************************)
\* stream = compressed_data[2:]
Stream == Slice(compressed_data, 2, Len(compressed_data))

\* where the run goes when decompress_data has returned or raised
AfterDecode == IF mode = "roundtrip" THEN "verify" ELSE "done"

\* variant of ZeroSizeRaises: every decoder treats a zero header as an error
ZeroSizeAlwaysRaises(dec) == TRUE

\* the header is zero: pydec3 and pydec4 return the empty result, the copy of
\* the decoder in pyenc4 raises
ZeroSizeRaises(dec) == dec = "pyenc4"

\* variant of FreshCursor: the cursor is kept from the call before
StaleCursor == in_ptr

\* in_ptr = 0: every call starts at the first byte of the stream
FreshCursor == 0

\* entry: the header, the zero-size case and the output buffer
DecompressEnter ==
    /\ pc = "decompress"
    /\ IF Len(compressed_data) < 2
       THEN /\ dec_error' = "ValueError"
            /\ pc' = AfterDecode
            /\ UNCHANGED <<decompressed_size, in_ptr, out_buffer, out_ptr, dec_result>>
       ELSE LET size == FromBytesLittle(compressed_data)
            IN  /\ decompressed_size' = size
                /\ IF size = 0
                   THEN /\ IF ZeroSizeRaises(decoder)
                           THEN /\ dec_error' = "ValueError"
                                /\ UNCHANGED dec_result
                           ELSE /\ dec_result' =
                                       [returned |-> TRUE, out |-> Zeros(0), size |-> 2]
                                /\ UNCHANGED dec_error
                        /\ pc' = AfterDecode
                        /\ UNCHANGED <<in_ptr, out_buffer, out_ptr>>
                   ELSE /\ in_ptr' = FreshCursor
                        /\ out_buffer' = Zeros(size)
                        /\ out_ptr' = 0
                        /\ pc' = "dec_loop"
                        /\ UNCHANGED <<dec_result, dec_error>>
    /\ UNCHANGED outerVars
    /\ UNCHANGED <<mode, encoder, decoder, compressed_data, dec_log, verified>>
    /\ UNCHANGED encVars

\* variant of InDecLoop: the loop goes on while a command byte is left
InDecLoopToEnd ==
    /\ pc = "dec_loop"
    /\ in_ptr < Len(Stream)

\* the loop goes on: declared size not reached and a command byte is left
InDecLoop ==
    /\ pc = "dec_loop"
    /\ out_ptr < decompressed_size
    /\ in_ptr < Len(Stream)

\* the instruction at in_ptr
CurInstr == DecodeInstr(At(Stream, in_ptr), Stream, in_ptr + 1)

LogEntry(ins, moved, in_end) ==
    [cmd |-> At(Stream, in_ptr), form |-> ins.form, ok |-> ins.ok, length |-> ins.length,
     offset |-> ins.offset, in_start |-> in_ptr, in_end |-> in_end,
     out_start |-> out_ptr, moved |-> moved]

\* the copy of n bytes of the back-reference ins
CopyStep(ins, n) ==
    /\ out_buffer' = CopyLoop(out_buffer, out_ptr, out_ptr - (ins.offset + 1), n)
    /\ out_ptr' = out_ptr + n
    /\ in_ptr' = ins.in_ptr
    /\ dec_log' = Append(dec_log, LogEntry(ins, n, ins.in_ptr))

CopyOf(ins) ==
    /\ ins.ok
    /\ ins.form \in CopyForms
    /\ CopyStep(ins, IF ins.length > 0
                     THEN CopyCount(ins.length, decompressed_size, out_ptr)
                     ELSE 0)

\* a back-reference: byte-by-byte copy, clamped to the declared size
DecCopy ==
    /\ InDecLoop
    /\ CopyOf(CurInstr)
    /\ UNCHANGED outerVars
    /\ UNCHANGED <<mode, encoder, decoder, pc, compressed_data, decompressed_size,
                   dec_result, dec_error, verified>>
    /\ UNCHANGED encVars

\* the move of actual_len payload bytes of the literal ins
LiteralStep(ins, actual_len) ==
    /\ out_buffer' = SliceAssign(out_buffer, out_ptr, out_ptr + actual_len,
                                 Slice(Stream, ins.in_ptr, ins.in_ptr + actual_len))
    /\ out_ptr' = out_ptr + actual_len
    /\ in_ptr' = ins.in_ptr + actual_len
    /\ dec_log' = Append(dec_log, LogEntry(ins, actual_len, ins.in_ptr + actual_len))

LiteralOf(ins) ==
    /\ ins.ok
    /\ ins.form \notin CopyForms
    /\ LiteralStep(ins, IF ins.form \in LiteralForms
                        THEN ActualLen(ins.length, decompressed_size, out_ptr,
                                       Stream, ins.in_ptr)
                        ELSE 0)

\* a literal run: a slice of the stream, clamped to the declared size and to
\* the bytes the stream still has
DecLiteral ==
    /\ InDecLoop
    /\ LiteralOf(CurInstr)
    /\ UNCHANGED outerVars
    /\ UNCHANGED <<mode, encoder, decoder, pc, compressed_data, decompressed_size,
                   dec_result, dec_error, verified>>
    /\ UNCHANGED encVars

RaiseOf(ins) ==
    /\ ~ins.ok
    /\ in_ptr' = ins.in_ptr
    /\ dec_log' = Append(dec_log, LogEntry(ins, 0, ins.in_ptr))
    /\ dec_error' = "RuntimeError"

\* an extra byte is missing (IndexError) or the command has no form: the call
\* raises RuntimeError
DecRaise ==
    /\ InDecLoop
    /\ RaiseOf(CurInstr)
    /\ pc' = AfterDecode
    /\ UNCHANGED outerVars
    /\ UNCHANGED <<mode, encoder, decoder, compressed_data, decompressed_size,
                   out_buffer, out_ptr, dec_result, verified>>
    /\ UNCHANGED encVars

\* variant of ReturnValue: the buffer is cut at the bytes produced
ReturnValueShort(dec, buf, size, ip) ==
    [returned |-> TRUE,
     out |-> Slice(buf, 0, out_ptr),
     size |-> IF dec = "pyenc4" THEN -1 ELSE ip + 2]

\* the value decompress_data returns: pydec3 and pydec4 return the pair
\* (output, compressed size), pyenc4 returns the output alone
ReturnValue(dec, buf, size, ip) ==
    [returned |-> TRUE,
     out |-> Slice(buf, 0, size),
     size |-> IF dec = "pyenc4" THEN -1 ELSE ip + 2]

\* the loop ends: declared size reached, or no command byte left
DecReturn ==
    /\ pc = "dec_loop"
    /\ ~(out_ptr < decompressed_size /\ in_ptr < Len(Stream))
    /\ dec_result' = ReturnValue(decoder, out_buffer, decompressed_size, in_ptr)
    /\ pc' = AfterDecode
    /\ UNCHANGED outerVars
    /\ UNCHANGED <<mode, encoder, decoder, compressed_data, decompressed_size,
                   in_ptr, out_buffer, out_ptr, dec_log, dec_error, verified>>
    /\ UNCHANGED encVars

(***************************************************************************)
(* verify_compression                                                      *)
(***************************************************************************)
VerifyResult(original_data, res, err) ==
    IF err # "none" THEN FALSE
    ELSE IF Len(res.out) # Len(original_data) THEN FALSE
    ELSE \A i \in 1..Len(original_data) : original_data[i] = res.out[i]

Verify ==
    /\ pc = "verify"
    /\ verified' = VerifyResult(data, dec_result, dec_error)
    /\ pc' = "done"
    /\ UNCHANGED outerVars
    /\ UNCHANGED <<mode, encoder, decoder>>
    /\ UNCHANGED encVars
    /\ UNCHANGED decVars

Next ==
    \/ CompressEnter
    \/ EncCommit
    \/ EncEmit
    \/ EncLiteral
    \/ EncFlushFull
    \/ CompressReturn
    \/ DecompressEnter
    \/ DecCopy
    \/ DecLiteral
    \/ DecRaise
    \/ DecReturn
    \/ Verify

Spec == Init /\ [][Next]_vars


(***************************************************************************)
(* compress_data: the block that emits the back-reference command, applied *)
(* to committed matches of every length and of offsets around the limits   *)
(* of the forms                                                            *)
(***************************************************************************)
\* match lengths the search can return and the admissibility test lets pass
EmitLens == 3..263

\* offsets around the limits 15, 255, 1023 and 4095
EmitOffsets ==
    {0, 1, 2, 14, 15, 16, 17, 255, 256, 257, 511, 512, 1022, 1023, 1024, 1025,
     2047, 2048, 4094, 4095}

InitEmit ==
    /\ mode = "emit"
    /\ encoder \in {"pyenc4", "pyenc5"}
    /\ decoder = "none"
    /\ pc = "emit"
    /\ best_match_len \in EmitLens
    /\ best_match_offset \in EmitOffsets
    /\ CanBeEncoded(best_match_len, best_match_offset)
    /\ final_offset = best_match_offset
    /\ best_match_pos = 0
    /\ data = <<>>
    /\ compressed = <<>>
    /\ output_buffer = <<>>
    /\ literal_buffer = <<>>
    /\ pos = 0
    /\ enc_error = "none"
    /\ compressed_data = <<>>
    /\ decompressed_size = 0
    /\ in_ptr = 0
    /\ out_buffer = <<>>
    /\ out_ptr = 0
    /\ dec_log = <<>>
    /\ dec_result = NoResult
    /\ dec_error = "none"
    /\ verified = "pending"
    /\ prev_call = NoCall
    /\ rom_data = <<>>
    /\ rom_error = "none"
    /\ rom_items = 0
    /\ TextIdle

\* the if/elif chain that appends the command of the committed match
EmitBlock ==
    /\ mode = "emit"
    /\ pc = "emit"
    /\ compressed' = compressed \o EmitCopy(best_match_len, best_match_offset)
    /\ pc' = "done"
    /\ UNCHANGED <<mode, encoder, decoder, data, output_buffer, literal_buffer, pos,
                   best_match_len, best_match_pos, final_offset, best_match_offset,
                   enc_error, verified>>
    /\ UNCHANGED decVars
    /\ UNCHANGED outerVars

SpecEmit == InitEmit /\ [][EmitBlock]_vars

(***************************************************************************)
(* decompress_data called on buffers that hold one command of every opcode *)
(* value, and called a second time on the same buffer                      *)
(***************************************************************************)
\* values of the first extra byte: both nibbles at their ends, and the
\* values around the carry of 0x11 + extra1
ExtraValues == {0, 1, 15, 16, 17, 127, 128, 238, 239, 240, 254, 255}

\* a header that declares one byte, then a command byte of every value with
\* none, one or two of its extra bytes
OpcodeBuffers ==
    {<<1, 0, c>> : c \in 0..255}
    \cup {<<1, 0, c, b1>> : c \in 0..255, b1 \in ExtraValues}
    \cup {<<1, 0, c, b1, b2>> : c \in 0..255, b1 \in ExtraValues, b2 \in {0, 255}}

\* crafted buffers of several commands, and buffers too short for a header
ReplayBuffers ==
    {<<>>, <<5>>} \cup {h \o s : h \in Headers, s \in SeqsUpTo(StreamBytes, 2)}

\* no compress_data call is part of the run
EncIdle ==
    /\ data = <<>>
    /\ compressed = <<>>
    /\ output_buffer = <<>>
    /\ literal_buffer = <<>>
    /\ pos = 0
    /\ best_match_len = 0
    /\ best_match_pos = -1
    /\ final_offset = -1
    /\ best_match_offset = -1
    /\ enc_error = "none"
    /\ verified = "pending"

InitDecode ==
    /\ mode = "decode"
    /\ encoder = "none"
    /\ decoder = "pydec3"
    /\ pc = "decompress"
    /\ compressed_data \in OpcodeBuffers \cup ReplayBuffers
    /\ EncIdle
    /\ decompressed_size = 0
    /\ in_ptr = 0
    /\ out_buffer = <<>>
    /\ out_ptr = 0
    /\ dec_log = <<>>
    /\ dec_result = NoResult
    /\ dec_error = "none"
    /\ prev_call = NoCall
    /\ rom_data = <<>>
    /\ rom_error = "none"
    /\ rom_items = 0
    /\ TextIdle

\* the caller keeps the outcome and calls decompress_data on the same buffer
\* once more; the locals of the finished call are whatever it left behind
CallAgain ==
    /\ mode = "decode"
    /\ pc = "done"
    /\ ~prev_call.called
    /\ prev_call' = [called |-> TRUE, result |-> dec_result, error |-> dec_error]
    /\ dec_result' = NoResult
    /\ dec_error' = "none"
    /\ dec_log' = <<>>
    /\ pc' = "decompress"
    /\ UNCHANGED <<mode, encoder, decoder, compressed_data, decompressed_size, in_ptr,
                   out_buffer, out_ptr, verified, rom_data, rom_error, rom_items,
                   char_index, final_code, lookup_code>>
    /\ UNCHANGED encVars

NextDecode ==
    \/ DecompressEnter
    \/ DecCopy
    \/ DecLiteral
    \/ DecRaise
    \/ DecReturn
    \/ CallAgain

SpecDecode == InitDecode /\ [][NextDecode]_vars

(***************************************************************************)
(* The injection glue: inject_compressed_graphic of pyenc4.py and the loop *)
(* of main in pyenc5.py, one action per item of the batch                  *)
(***************************************************************************)
\* a slice bound of Python normalised for a sequence of length n
PyIndex(i, n) == IF i < 0 THEN Max2(i + n, 0) ELSE Min2(i, n)

\* buf[lo:hi] = src on a bytearray: the slice, clamped to the buffer and
\* empty when its end is before its start, is replaced by src
PySliceAssign(buf, lo, hi, src) ==
    Slice(buf, 0, PyIndex(lo, Len(buf)))
        \o src
        \o Slice(buf, Max2(PyIndex(lo, Len(buf)), PyIndex(hi, Len(buf))), Len(buf))

\* rom_data[file_offset:file_offset + len(stream)] = stream
WriteAt(rom, file_offset, stream) ==
    PySliceAssign(rom, file_offset, file_offset + Len(stream), stream)

\* compress_data of an input of at most 16 bytes: the header and one literal
CompressShort(d) == FlushLiterals(ToBytesLittle(Len(d)), <<>>, d).compressed

\* tile and palette data of the items
Payloads == {Run(65, n) : n \in 0..MaxPayload}

\* file offsets of the items: lorom_to_file_offset(address) + header_offset,
\* negative for an address below bank 0x80
FileOffsets == {-2, 0, MaxRom - 4, MaxRom - 1, MaxRom + 1}

\* the palette write of an item, when it has a palette address: unchecked
\* in both tools
WithPalette(rom, has_palette, palette_file_offset, compressed_palette) ==
    IF has_palette THEN WriteAt(rom, palette_file_offset, compressed_palette)
    ELSE rom

\* verify_compression of pyenc4 on the stream of tile_data: its decoder
\* raises on a zero size header, every other stream decodes to tile_data
VerifyFails(tile_data) == tile_data = <<>> /\ ZeroSizeRaises("pyenc4")

\* inject_compressed_graphic raises before the graphic is written
Rejected4(rom, file_offset, tile_data) ==
    \/ VerifyFails(tile_data)
    \/ file_offset + Len(CompressShort(tile_data)) > Len(rom)

\* the graphic write of pyenc4, after the palette write left rom
Graphic4(rom, file_offset, tile_data) ==
    /\ rom_error' = IF Rejected4(rom, file_offset, tile_data) THEN "ValueError" ELSE "none"
    /\ rom_data' = IF Rejected4(rom, file_offset, tile_data) THEN rom
                   ELSE WriteAt(rom, file_offset, CompressShort(tile_data))

InitInject ==
    /\ mode = "inject"
    /\ encoder \in {"pyenc4", "pyenc5"}
    /\ decoder = "none"
    /\ pc = "inject"
    /\ EncIdle
    /\ compressed_data = <<>>
    /\ decompressed_size = 0
    /\ in_ptr = 0
    /\ out_buffer = <<>>
    /\ out_ptr = 0
    /\ dec_log = <<>>
    /\ dec_result = NoResult
    /\ dec_error = "none"
    /\ prev_call = NoCall
    /\ rom_data = Zeros(MaxRom)
    /\ rom_error = "none"
    /\ rom_items = 0
    /\ TextIdle

\* what an item of the batch leaves alone
ItemFrame ==
    /\ rom_items' = rom_items + 1
    /\ UNCHANGED <<char_index, final_code, lookup_code>>
    /\ UNCHANGED <<mode, encoder, decoder, pc, verified, prev_call>>
    /\ UNCHANGED encVars
    /\ UNCHANGED decVars

\* pyenc4: one item of the batch through inject_compressed_graphic
Inject4 ==
    /\ mode = "inject" /\ encoder = "pyenc4"
    /\ rom_items < MaxItems
    /\ \E tile_data \in Payloads, file_offset \in FileOffsets,
          has_palette \in BOOLEAN, palette_file_offset \in FileOffsets :
           Graphic4(WithPalette(rom_data, has_palette, palette_file_offset,
                                CompressShort(<<65, 66>>)),
                    file_offset, tile_data)
    /\ ItemFrame

\* pyenc5: one item of the batch, palette and graphic written unchecked
Inject5 ==
    /\ mode = "inject" /\ encoder = "pyenc5"
    /\ rom_items < MaxItems
    /\ \E tile_data \in Payloads, file_offset \in FileOffsets,
          has_palette \in BOOLEAN, palette_file_offset \in FileOffsets :
           rom_data' = WriteAt(WithPalette(rom_data, has_palette, palette_file_offset,
                                           CompressShort(<<65, 66>>)),
                               file_offset, CompressShort(tile_data))
    /\ rom_error' = "none"
    /\ ItemFrame

NextInject == Inject4 \/ Inject5

SpecInject == InitInject /\ [][NextInject]_vars

(***************************************************************************)
(* Every call runs to its end                                              *)
(***************************************************************************)
\* the inputs of the calls followed to their end: round trips through
\* compress_data of pyenc4 of 16 equal bytes and 3 more, of the empty input
\* and of an input that is too large, and buffers of one command, of every
\* command byte, whose extra bytes are 0xFF
FullThenThree(d) ==
    \/ d = <<>>
    \/ Len(d) = 19 /\ SubSeq(d, 1, 16) = Run(65, 16)
    \/ Len(d) = 65536

ExtrasFF(b) == b \in OpcodeBuffers /\ \A i \in 4..Len(b) : b[i] = 255

InitCalls ==
    \/ Init /\ mode = "roundtrip" /\ encoder = "pyenc4" /\ FullThenThree(data)
    \/ InitDecode /\ ExtrasFF(compressed_data)

\* a call that has started takes its next step: the code is sequential and
\* no step waits for anything
SpecCalls == InitCalls /\ [][Next]_vars /\ WF_vars(Next)

(***************************************************************************)
(* The match search of one loop iteration, on its own                      *)
(***************************************************************************)
\* length of the short inputs of the search
MaxMatchLen == 6

\* "\x01\x02\x03", zeros, and "\x01\x02\x03\x04": the first three bytes are the
\* oldest byte of the search window when 4095 bytes are committed
Window4095 == <<1, 2, 3>> \o Run(0, 4092) \o <<1, 2, 3, 4>>

\* the same with one more zero: position 0 is one byte before the window when
\* 4096 bytes are committed
Window4096 == <<1, 2, 3>> \o Run(0, 4093) \o <<1, 2, 3, 4>>

\* three periods of 270 bytes: every match is longer than 263 bytes
Period270 == <<1>> \o Run(0, 269)

Periods == Period270 \o Period270 \o Period270

\* eight bytes that occur once in 4095 committed bytes, followed by two, one
\* or no pending literal bytes and by the eight bytes again
Far8 == <<1, 2, 3, 4, 5, 6, 7, 8>>

FarTwo == Far8 \o Run(0, 4087) \o <<7, 7>> \o Far8 \o <<9>>

FarOne == Far8 \o Run(0, 4087) \o <<7>> \o Far8 \o <<9>>

FarNone == Far8 \o Run(0, 4087) \o Far8 \o <<9>>

\* data, source position and number of pending literals at the head of a loop
\* iteration: output_buffer + literal_buffer = data[:pos], pos < len(data)
LongIterations ==
    {[data |-> Window4095, pos |-> 4095, nlit |-> 0],
     [data |-> Window4096, pos |-> 4096, nlit |-> 0],
     [data |-> Window4096, pos |-> 4096, nlit |-> 1],
     [data |-> Periods, pos |-> 270, nlit |-> 0],
     [data |-> Periods, pos |-> 540, nlit |-> 0],
     [data |-> Periods, pos |-> 540, nlit |-> 5],
     [data |-> FarTwo, pos |-> 4097, nlit |-> 2],
     [data |-> FarOne, pos |-> 4096, nlit |-> 1],
     [data |-> FarNone, pos |-> 4095, nlit |-> 0]}

ShortIterations ==
    {it \in [data : SeqsUpTo({65, 66}, MaxMatchLen), pos : 0..MaxMatchLen, nlit : 0..2] :
        it.pos < Len(it.data) /\ it.nlit <= it.pos}

InitMatch ==
    /\ mode = "match"
    /\ pc = "search"
    /\ decoder = "none"
    /\ \E it \in ShortIterations \cup LongIterations :
           /\ data = it.data
           /\ pos = it.pos
           /\ output_buffer = Slice(it.data, 0, it.pos - it.nlit)
           /\ literal_buffer = Slice(it.data, it.pos - it.nlit, it.pos)
           /\ encoder \in IF it \in LongIterations THEN {"pyenc4"}
                                                   ELSE {"pyenc4", "pyenc5"}
    /\ best_match_len = 0
    /\ best_match_pos = -1
    /\ final_offset = -1
    /\ best_match_offset = -1
    /\ compressed = <<>>
    /\ enc_error = "none"
    /\ compressed_data = <<>>
    /\ decompressed_size = 0
    /\ in_ptr = 0
    /\ out_buffer = <<>>
    /\ out_ptr = 0
    /\ dec_log = <<>>
    /\ dec_result = NoResult
    /\ dec_error = "none"
    /\ verified = "pending"
    /\ prev_call = NoCall
    /\ rom_data = <<>>
    /\ rom_error = "none"
    /\ rom_items = 0
    /\ TextIdle

\* one iteration of the loop up to the command: the match is committed
\* ("enc_emit") or the current byte becomes a literal
OneIteration ==
    /\ mode = "match"
    /\ pc = "search"
    /\ CommitIteration \/ LiteralIteration

NextMatch == OneIteration \/ EncEmit

SpecMatch == InitMatch /\ [][NextMatch]_vars

(***************************************************************************)
(* Properties                                                              *)
(***************************************************************************)
\* the run is past decompress_data
Decoded == pc \in {"verify", "done"}

\* the size the first two bytes of the buffer declare, low byte first
Declared == compressed_data[1] + 256 * compressed_data[2]

\* the command of log entry e had all its extra bytes in the stream
ExtrasPresent(e) == e.in_start + 1 + ExtraBytes(e.form) <= Len(Stream)

\* C1: round trip: what pydec3/pydec4 decode from the stream of either
\* compressor is the compressor's input, byte for byte.
C1_RoundTrip ==
    (mode = "roundtrip" /\ decoder = "pydec3" /\ Decoded /\ enc_error = "none")
        => (/\ dec_error = "none"
            /\ dec_result.returned
            /\ Len(dec_result.out) = Len(data)
            /\ \A i \in 1..Len(data) : dec_result.out[i] = data[i])

C1_Witness ==
    /\ mode = "roundtrip" /\ decoder = "pydec3" /\ encoder = "pyenc5"
    /\ pc = "done"
    /\ dec_result.out = data
    /\ \E i \in DOMAIN dec_log : dec_log[i].form = "ExtCopy"
    /\ \E i \in DOMAIN dec_log : dec_log[i].form = "ShortLiteral"

\* C2: header honesty: whenever decompress_data returns, its output has
\* exactly the length bytes 0-1 declare, and no instruction moves out_ptr
\* beyond that length.
C2_HeaderHonesty ==
    /\ dec_result.returned
         => (Len(compressed_data) >= 2 /\ Len(dec_result.out) = Declared)
    /\ (pc = "dec_loop" \/ (Decoded /\ Len(compressed_data) >= 2))
         => (/\ out_ptr <= Declared
             /\ \A i \in DOMAIN dec_log :
                    dec_log[i].out_start + dec_log[i].moved <= Declared)

C2_Witness ==
    /\ dec_result.returned
    /\ out_ptr = Declared
    /\ \E i \in DOMAIN dec_log :
          /\ dec_log[i].form \in CopyForms
          /\ dec_log[i].moved < dec_log[i].length

\* C3: empty input: compress_data of the empty input is the two bytes 00 00,
\* and pydec3/pydec4 decode that buffer to the empty output with compressed
\* size 2 without reading a command.
C3_EmptyInput ==
    /\ (mode = "roundtrip" /\ data = <<>>
        /\ pc \in {"decompress", "dec_loop", "verify", "done"})
         => compressed = <<0, 0>>
    /\ (compressed_data = <<0, 0>> /\ decoder = "pydec3" /\ Decoded)
         => (/\ dec_error = "none"
             /\ dec_result.returned
             /\ dec_result.out = <<>>
             /\ dec_result.size = 2
             /\ dec_log = <<>>
             /\ in_ptr = 0)

C3_Witness ==
    /\ mode = "roundtrip" /\ data = <<>> /\ decoder = "pydec3"
    /\ pc = "done"
    /\ compressed_data = <<0, 0>>
    /\ dec_result.returned /\ dec_result.size = 2

\* C4: the decoder verify_compression calls (pyenc4.py) returns the empty
\* output, without an error, for a header that declares size 0.
C4_ZeroSizeNoError ==
    (decoder = "pyenc4" /\ Decoded /\ Len(compressed_data) >= 2 /\ Declared = 0)
        => (dec_error = "none" /\ dec_result.returned /\ dec_result.out = <<>>)

\* C5: open-bus read: a copy whose extra bytes are present never raises; it
\* writes min(length, declared size - out_ptr) bytes, 0xFF where the source
\* index out_ptr - (offset + 1) + k is negative and otherwise the byte the
\* output holds at the source index.
C5_OpenBus ==
    \A i \in DOMAIN dec_log :
        LET e == dec_log[i]
        IN  (e.form \in CopyForms /\ ExtrasPresent(e))
              => /\ e.ok
                 /\ e.moved = Min2(e.length, Declared - e.out_start)
                 /\ \A k \in 0..(e.moved - 1) :
                        out_buffer[e.out_start + k + 1] =
                            IF e.out_start - (e.offset + 1) + k < 0
                            THEN 255
                            ELSE out_buffer[e.out_start - (e.offset + 1) + k + 1]

C5_Witness ==
    /\ dec_error = "none" /\ pc = "done"
    /\ \E i \in DOMAIN dec_log :
          /\ dec_log[i].form \in CopyForms
          /\ dec_log[i].out_start > 0
          /\ dec_log[i].out_start - (dec_log[i].offset + 1) < 0
          /\ dec_log[i].out_start - (dec_log[i].offset + 1) + dec_log[i].moved - 1 > 0

\* C6: self-overlapping copy: a copy with offset < length - 1 whose source
\* starts inside the output repeats the last offset + 1 bytes periodically;
\* after the single byte A, offset 0 and length 10 give ten more bytes A.
C6_SelfOverlap ==
    /\ \A i \in DOMAIN dec_log :
          LET e == dec_log[i]
          IN  (/\ e.form \in CopyForms /\ e.ok
               /\ e.offset < e.length - 1
               /\ e.out_start >= e.offset + 1)
                => \A k \in 0..(e.moved - 1) :
                       out_buffer[e.out_start + k + 1] =
                           out_buffer[e.out_start - (e.offset + 1)
                                      + (k % (e.offset + 1)) + 1]
    /\ (compressed_data = <<11, 0, 224, 65, 140, 0>> /\ decoder = "pydec3" /\ Decoded)
         => (dec_result.returned /\ dec_result.out = Run(65, 11))

C6_Witness ==
    /\ compressed_data = <<11, 0, 224, 65, 140, 0>>
    /\ pc = "done"
    /\ Len(dec_log) = 2
    /\ dec_log[2].form = "LongCopy" /\ dec_log[2].offset = 0
    /\ dec_log[2].length = 10 /\ dec_log[2].moved = 10
    /\ dec_result.out = Run(65, 11)

\* C7: tolerated early stop: decompress_data raises RuntimeError only for a
\* command whose extra bytes are missing, never at an instruction boundary;
\* when it ends with fewer bytes produced than declared it returns the buffer
\* of the declared length with the produced bytes at its front, and reports
\* 2 + len(stream) as the compressed size.
C7_EarlyStop ==
    /\ dec_error = "RuntimeError"
         => (/\ dec_log # <<>>
             /\ ~dec_log[Len(dec_log)].ok
             /\ ~ExtrasPresent(dec_log[Len(dec_log)]))
    /\ (/\ decoder = "pydec3" /\ Decoded /\ Len(compressed_data) >= 2
        /\ out_ptr < Declared
        /\ (dec_log = <<>> \/ ExtrasPresent(dec_log[Len(dec_log)])))
         => (/\ dec_error = "none"
             /\ dec_result.returned
             /\ dec_result.size = 2 + Len(Stream)
             /\ Len(dec_result.out) = Declared
             /\ \A i \in 1..out_ptr : dec_result.out[i] = out_buffer[i])

C7_Witness ==
    /\ mode = "decode" /\ pc = "done"
    /\ dec_result.returned
    /\ out_ptr > 0 /\ out_ptr < Declared
    /\ in_ptr = Len(Stream)
    /\ \E i \in DOMAIN dec_log : dec_log[i].form \in CopyForms

\* C8: truncation inside an instruction: when the command byte at in_ptr needs
\* more extra bytes than the stream still has, the step raises RuntimeError
\* and decompress_data returns nothing.
C8_Truncation ==
    [][(/\ pc = "dec_loop"
        /\ out_ptr < decompressed_size
        /\ in_ptr < Len(Stream)
        /\ Len(Stream) - (in_ptr + 1) < ExtraBytes(FormOf(At(Stream, in_ptr))))
          => (/\ dec_error' = "RuntimeError"
              /\ dec_result' = NoResult
              /\ pc' \in {"verify", "done"})]_vars

C8_Witness ==
    /\ dec_error = "RuntimeError" /\ pc = "done"
    /\ ~dec_result.returned
    /\ out_ptr > 0
    /\ dec_log[Len(dec_log)].form = "ExtCopy"
    /\ dec_log[Len(dec_log)].in_start + 2 = Len(Stream)

\* C9: input size limit: compress_data raises and builds no stream for an
\* input longer than 65535 bytes; it accepts every other input and starts the
\* stream with the input length as two bytes, low byte first (FF FF for
\* 65535 bytes).
C9_SizeLimit ==
    (mode = "roundtrip" /\ pc # "compress")
        => IF Len(data) > 65535
           THEN enc_error = "ValueError" /\ compressed = <<>> /\ pc = "done"
           ELSE /\ enc_error = "none"
                /\ Len(compressed) >= 2
                /\ compressed[1] = Len(data) % 256
                /\ compressed[2] = Len(data) \div 256
                /\ (Len(data) = 65535 => compressed[1] = 255 /\ compressed[2] = 255)

C9_Witness ==
    /\ mode = "roundtrip" /\ Len(data) = 65535
    /\ pc = "enc_loop"
    /\ enc_error = "none"
    /\ compressed = <<255, 255>>

\* the stream bytes the logged commands account for: the command byte, its
\* extra bytes and the literal payload moved
RECURSIVE C10_Consumed(_, _)
C10_Consumed(log, i) ==
    IF i > Len(log) THEN 0
    ELSE 1 + ExtraBytes(log[i].form)
           + (IF log[i].form \in LiteralForms THEN log[i].moved ELSE 0)
           + C10_Consumed(log, i + 1)

\* C10: compressed-size report: the second result of pydec3/pydec4 is 2 plus
\* the stream bytes consumed and never exceeds the length of the buffer.
C10_CompressedSize ==
    (dec_result.returned /\ decoder = "pydec3")
        => (/\ dec_result.size = 2 + C10_Consumed(dec_log, 1)
            /\ dec_result.size <= Len(compressed_data))

C10_Witness ==
    /\ mode = "decode" /\ pc = "done"
    /\ dec_result.returned
    /\ dec_result.size < Len(compressed_data)
    /\ \E i \in DOMAIN dec_log : dec_log[i].form \in CopyForms
    /\ \E i \in DOMAIN dec_log :
          dec_log[i].form \in LiteralForms /\ dec_log[i].moved >= 1

\* the form the selection rule names for a match (len, off)
C11_Form(len, off) ==
    IF len <= 6 /\ off <= 15 THEN "ShortCopy"
    ELSE IF len <= 6 /\ off <= 1023 THEN "MedCopy"
    ELSE IF len >= 7 /\ len <= 22 /\ off <= 1023 THEN "LongCopy"
    ELSE IF len >= 7 /\ len <= 263 /\ off <= 4095 THEN "ExtCopy"
    ELSE "none"

\* C11: copy form selection: the command emitted for a committed match
\* (len, offset) is a ShortCopy (1 byte) if len <= 6 and offset <= 15, else a
\* MedCopy (2 bytes) if len <= 6 and offset <= 1023, else a LongCopy (2 bytes)
\* if 7 <= len <= 22 and offset <= 1023, else an ExtCopy (3 bytes); the
\* command carries len and offset.  Length 6 at offset 15 is a ShortCopy,
\* length 6 at offset 16 a MedCopy.
C11_FormSelection ==
    (mode = "emit" /\ pc = "done")
        => /\ C11_Form(best_match_len, best_match_offset) # "none"
           /\ Len(compressed) = 1 + ExtraBytes(C11_Form(best_match_len, best_match_offset))
           /\ FormOf(compressed[1]) = C11_Form(best_match_len, best_match_offset)
           /\ DecodeInstr(compressed[1], compressed, 1).length = best_match_len
           /\ DecodeInstr(compressed[1], compressed, 1).offset = best_match_offset
           /\ (best_match_len = 6 /\ best_match_offset = 15
                 => Len(compressed) = 1 /\ compressed[1] < 64)
           /\ (best_match_len = 6 /\ best_match_offset = 16
                 => Len(compressed) = 2 /\ compressed[1] \in 64..127)

C11_Witness ==
    /\ mode = "emit" /\ pc = "done"
    /\ best_match_len = 6 /\ best_match_offset = 16
    /\ Len(compressed) = 2
    /\ FormOf(compressed[1]) = "MedCopy"

\* the compressor has returned its stream
Compressed ==
    mode = "roundtrip" /\ pc \in {"decompress", "dec_loop", "verify", "done"}

\* no 3-byte sequence occurs at two different positions of d
C12_NoRepeat(d) ==
    \A i \in 0..(Len(d) - 3) : \A j \in 0..(Len(d) - 3) :
        i # j => Slice(d, i, i + 3) # Slice(d, j, j + 3)

\* the payload of the ShortLiteral commands of comp from index i (1-based) on;
\* <<-1>> when a byte in command position is no ShortLiteral opcode or a
\* payload is cut short
RECURSIVE C12_Payload(_, _)
C12_Payload(comp, i) ==
    IF i > Len(comp) THEN <<>>
    ELSE IF comp[i] \notin 224..239 \/ i + (comp[i] - 223) > Len(comp) THEN <<-1>>
    ELSE SubSeq(comp, i + 1, i + (comp[i] - 223))
             \o C12_Payload(comp, i + 1 + (comp[i] - 223))

\* C12: literal-only path: for an input in which no 3-byte sequence occurs
\* twice, the stream is the header followed only by ShortLiteral commands
\* (0xE0-0xEF) with their raw bytes, 2 + ceil(len/16) + len bytes in all.
C12_LiteralOnly ==
    (Compressed /\ C12_NoRepeat(data))
        => /\ Len(compressed) = 2 + ((Len(data) + 15) \div 16) + Len(data)
           /\ C12_Payload(compressed, 3) = data

C12_Witness ==
    /\ Compressed /\ pc = "done"
    /\ data = Distinct17 \o <<65, 66, 65>>
    /\ Len(compressed) = 24
    /\ compressed[3] = 239 /\ compressed[20] = 227

\* C13: determinism: a second call of decompress_data on the same buffer,
\* whatever the first call left behind, returns the same output bytes and the
\* same compressed size, or raises the same error.
C13_Determinism ==
    (prev_call.called /\ pc = "done")
        => (dec_result = prev_call.result /\ dec_error = prev_call.error)

C13_Witness ==
    /\ prev_call.called /\ pc = "done"
    /\ prev_call.result.returned
    /\ dec_result.returned
    /\ Len(dec_log) >= 2
    /\ out_ptr > 0 /\ in_ptr > 0

\* the copy commands of the log that were decoded with all their fields
CopiesDecoded == {i \in DOMAIN dec_log : dec_log[i].ok /\ dec_log[i].form \in CopyForms}

\* the literal commands of the log that were decoded with all their fields
LiteralsDecoded ==
    {i \in DOMAIN dec_log : dec_log[i].ok /\ dec_log[i].form \in LiteralForms}

\* C14 as claimed: every decoded copy has length and offset in the range the
\* data model gives its form (MedCopy offset 0-1023, ExtCopy length 7-263).
C14_DataModelRanges ==
    \A i \in CopiesDecoded :
        LET e == dec_log[i]
        IN  CASE e.form = "ShortCopy" ->
                     e.length \in 3..6 /\ e.offset \in 0..15
              [] e.form = "MedCopy" ->
                     e.length \in 3..6 /\ e.offset \in 0..1023
              [] e.form = "LongCopy" ->
                     e.length \in 7..22 /\ e.offset \in 0..1023
              [] e.form = "ExtCopy" ->
                     e.length \in 7..263 /\ e.offset \in 0..4095

\* C14: every decoded copy has length and offset in the range its bit fields
\* span: ShortCopy length 3-6 and offset 0-15; MedCopy length 3-6 and offset
\* 0-4095 (4 offset bits in the command); LongCopy length 7-22 and offset
\* 0-1023; ExtCopy length 7-518 (9-bit length field) and offset 0-4095.
C14_FieldRanges ==
    \A i \in CopiesDecoded :
        LET e == dec_log[i]
        IN  CASE e.form = "ShortCopy" ->
                     e.length \in 3..6 /\ e.offset \in 0..15
              [] e.form = "MedCopy" ->
                     e.length \in 3..6 /\ e.offset \in 0..4095
              [] e.form = "LongCopy" ->
                     e.length \in 7..22 /\ e.offset \in 0..1023
              [] e.form = "ExtCopy" ->
                     e.length \in 7..518 /\ e.offset \in 0..4095

C14_Witness ==
    /\ pc = "done"
    /\ \E i \in CopiesDecoded :
          /\ dec_log[i].form = "ExtCopy"
          /\ dec_log[i].length = 518
          /\ dec_log[i].offset = 4095

\* C15 as claimed: every decoded literal has a length in the range the data
\* model gives its form: ShortLiteral 1-16, LongLiteral 17-273.
C15_DataModelLengths ==
    \A i \in LiteralsDecoded :
        LET e == dec_log[i]
        IN  IF e.form = "ShortLiteral"
            THEN e.length \in 1..16
            ELSE e.length \in 17..273

\* C15: every decoded ShortLiteral has length (cmd & 0xF) + 1, in 1-16; every
\* decoded LongLiteral has length 256 * (cmd & 3) + 0x11 + extra1, in 17-1040
\* (17-272 when cmd & 3 = 0).
C15_LiteralLengths ==
    \A i \in LiteralsDecoded :
        LET e == dec_log[i]
        IN  IF e.form = "ShortLiteral"
            THEN e.length = (e.cmd % 16) + 1 /\ e.length \in 1..16
            ELSE /\ e.length = 256 * (e.cmd % 4) + 17 + At(Stream, e.in_start + 1)
                 /\ e.length \in 17..1040
                 /\ (e.cmd % 4 = 0 => e.length \in 17..272)

C15_Witness ==
    /\ pc = "done"
    /\ \E i \in LiteralsDecoded :
          /\ dec_log[i].form = "LongLiteral"
          /\ dec_log[i].length = 1040
          /\ dec_log[i].moved = 1

\* bits 5..4 of the command byte c
Bits54(c) == (c \div 16) % 4

\* the bytes of log entry e that are neither the command nor literal payload
ExtrasRead(e) ==
    e.in_end - e.in_start - 1 - (IF e.form \in LiteralForms THEN e.moved ELSE 0)

\* C16 as claimed: for a command with top bits 11, bits 5..4 select the form:
\* 00 ExtCopy, 01 ShortLiteral, 10 or 11 LongLiteral.
C16_SelectorAsClaimed ==
    \A i \in DOMAIN dec_log :
        dec_log[i].cmd >= 192
          => dec_log[i].form =
                 CASE Bits54(dec_log[i].cmd) = 0 -> "ExtCopy"
                   [] Bits54(dec_log[i].cmd) = 1 -> "ShortLiteral"
                   [] OTHER -> "LongLiteral"

\* C16: for a command with top bits 11 the form follows the run of 1 bits
\* that starts at bit 5: bit 5 clear (bits 5..4 = 00 or 01) selects ExtCopy
\* with 2 extra bytes, bit 4 being bit 8 of its length; bits 5..4 = 10
\* selects ShortLiteral with no extra byte; bits 5..4 = 11 selects
\* LongLiteral with 1 extra byte.
C16_Selector ==
    \A i \in DOMAIN dec_log :
        LET e == dec_log[i]
        IN  e.cmd >= 192
              => /\ e.form = CASE Bits54(e.cmd) \in {0, 1} -> "ExtCopy"
                               [] Bits54(e.cmd) = 2 -> "ShortLiteral"
                               [] OTHER -> "LongLiteral"
                 /\ e.ok => ExtrasRead(e) = CASE Bits54(e.cmd) \in {0, 1} -> 2
                                              [] Bits54(e.cmd) = 2 -> 0
                                              [] OTHER -> 1
                 /\ (e.ok /\ e.form = "ExtCopy")
                      => (e.length - 7) \div 256 = Bits54(e.cmd)

C16_Witness ==
    /\ pc = "done"
    /\ \E i \in DOMAIN dec_log :
          /\ dec_log[i].ok
          /\ dec_log[i].cmd = 208
          /\ dec_log[i].form = "ExtCopy"
          /\ dec_log[i].length >= 263

\* number of consecutive 1 bits of c counted from the given bit downward
RECURSIVE C19_Ones(_, _)
C19_Ones(c, bit) ==
    IF bit < 0 \/ (c \div (2 ^ bit)) % 2 = 0 THEN 0
    ELSE 1 + C19_Ones(c, bit - 1)

\* the form read directly from the bit fields of c
C19_DirectForm(c) ==
    IF c < 64 THEN "ShortCopy"
    ELSE IF c < 128 THEN "MedCopy"
    ELSE IF c < 192 THEN "LongCopy"
    ELSE IF (c \div 32) % 2 = 0 THEN "ExtCopy"
    ELSE IF (c \div 16) % 2 = 0 THEN "ShortLiteral"
    ELSE "LongLiteral"

\* C19: for every command byte read, the rotate-through-carry derivation
\* gives first_jump = 2 * (cmd >> 6) and second_jump = 2 * (number of
\* consecutive 1 bits from bit 5 downward); the form selected is the one the
\* bit fields give, one of the six forms, never the unknown-command branch.
C19_RotateEqualsBitFields ==
    \A i \in DOMAIN dec_log :
        /\ FirstJump(dec_log[i].cmd) = 2 * (dec_log[i].cmd \div 64)
        /\ SecondJump(dec_log[i].cmd) = 2 * C19_Ones(dec_log[i].cmd, 5)
        /\ dec_log[i].form = C19_DirectForm(dec_log[i].cmd)
        /\ dec_log[i].form \in CopyForms \cup LiteralForms
        /\ ~dec_log[i].ok => ~ExtrasPresent(dec_log[i])

C19_Witness ==
    /\ pc = "done"
    /\ \E i \in DOMAIN dec_log :
          /\ dec_log[i].cmd = 255
          /\ SecondJump(dec_log[i].cmd) = 12
          /\ FirstJump(dec_log[i].cmd) = 6
          /\ dec_log[i].form = "LongLiteral"

\* C17: injection bounds: a stream is written into the ROM buffer only when
\* target offset + len(stream) does not exceed the buffer, so the buffer has
\* the same length after any sequence of injections.
C17_RomLengthKept ==
    mode = "inject" => Len(rom_data) = MaxRom

\* C18: compress_data uses only non-overlapping matches: when a copy command
\* is about to be appended, the source range [best_match_pos, best_match_pos +
\* best_match_len) lies inside the shadow output that exists before the copy,
\* that is best_match_len <= best_match_offset + 1; and every copy the decoder
\* reads back from a stream of compress_data has length <= offset + 1.
C18_NonOverlapping ==
    /\ pc = "enc_emit" =>
           /\ best_match_len >= 3
           /\ best_match_pos >= 0
           /\ best_match_pos + best_match_len <= Len(output_buffer)
           /\ best_match_len <= best_match_offset + 1
    /\ mode = "roundtrip" =>
           \A i \in CopiesDecoded : dec_log[i].length <= dec_log[i].offset + 1

\* a copy was appended whose source range ends at the last byte of the shadow
\* output: ShortCopy of length 3 at offset 2 (command byte 0x08)
C18_Witness ==
    /\ mode = "roundtrip" /\ pc = "enc_loop"
    /\ best_match_len = 3
    /\ best_match_len = best_match_offset + 1
    /\ Len(output_buffer) = best_match_pos + 2 * best_match_len
    /\ compressed[Len(compressed)] = 8

\* the bytes the step appended to the compressed stream
C20_Appended == SubSeq(compressed', Len(compressed) + 1, Len(compressed'))

\* C20: flush-before-copy ordering: in the step that appends a copy command
\* the literal buffer is empty, and the offset the command encodes is
\* final_offset, the offset of the admissibility test (shadow length + pending
\* literals - match position - 1), which leads the decoder, whose output is the
\* shadow output at that point, to the match position.
C20_FlushBeforeCopy ==
    [][(pc = "enc_emit" /\ pc' = "enc_loop") =>
          /\ literal_buffer = <<>>
          /\ Len(C20_Appended) >= 1
          /\ DecodeInstr(C20_Appended[1], C20_Appended, 1).ok
          /\ DecodeInstr(C20_Appended[1], C20_Appended, 1).form \in CopyForms
          /\ DecodeInstr(C20_Appended[1], C20_Appended, 1).in_ptr = Len(C20_Appended)
          /\ DecodeInstr(C20_Appended[1], C20_Appended, 1).length = best_match_len
          /\ DecodeInstr(C20_Appended[1], C20_Appended, 1).offset = final_offset
          /\ Len(output_buffer) - final_offset - 1 = best_match_pos]_vars

\* a copy was appended right after the flush of one pending literal: the match
\* at position 0 of a 16-byte shadow output has offset 16, not 15, so the
\* command is a MedCopy (0x40, 0x10) following the literal chunk (0xE0, 0x50)
C20_Witness ==
    /\ mode = "roundtrip" /\ pc = "enc_loop"
    /\ Len(compressed) >= 4
    /\ SubSeq(compressed, Len(compressed) - 3, Len(compressed)) = <<224, 80, 64, 16>>
    /\ final_offset = 16
    /\ best_match_pos = 0

\* the commands of comp from index i (0-based) on are complete, none is a
\* LongLiteral, and every ShortLiteral 0xE0 | (n - 1) has its n raw bytes
RECURSIVE C21_ShortLiteralsOnly(_, _)
\* the commands after the instruction ins
C21_After(comp, ins) ==
    /\ ins.ok
    /\ ins.form \in CopyForms \cup {"ShortLiteral"}
    /\ IF ins.form = "ShortLiteral"
       THEN /\ ins.length \in 1..16
            /\ ins.in_ptr + ins.length <= Len(comp)
            /\ C21_ShortLiteralsOnly(comp, ins.in_ptr + ins.length)
       ELSE C21_ShortLiteralsOnly(comp, ins.in_ptr)

C21_ShortLiteralsOnly(comp, i) ==
    IF i >= Len(comp) THEN TRUE
    ELSE /\ At(comp, i) \notin 240..255
         /\ C21_After(comp, DecodeInstr(At(comp, i), comp, i + 1))

\* C21: the pending literal buffer never holds more than 16 bytes and at most
\* 15 at the start of a loop iteration; every literal command of the stream is
\* a ShortLiteral 0xE0 | (n - 1) followed by n raw bytes, 1 <= n <= 16, and
\* the stream holds no LongLiteral command (0xF0-0xFF).
C21_LiteralBuffer ==
    mode = "roundtrip" =>
        /\ Len(literal_buffer) <= 16
        /\ pc = "enc_loop" => Len(literal_buffer) <= 15
        /\ Len(compressed) >= 2 => C21_ShortLiteralsOnly(compressed, 2)

\* a full buffer of 16 literals was flushed as one command 0xEF and 16 bytes
C21_Witness ==
    /\ mode = "roundtrip" /\ pc = "enc_loop"
    /\ literal_buffer = <<>>
    /\ Len(compressed) = 19
    /\ compressed[3] = 239
    /\ SubSeq(compressed, 4, 19) = SubSeq(data, 1, 16)

\* the positions of the last 4095 bytes of the committed shadow buffer
C22_Window(outb) == Max2(0, Len(outb) - 4095)..(Len(outb) - 1)

\* the length of the common prefix of outb[q:] and d[p:], capped at 263
C22_Prefix(outb, q, d, p) ==
    LET cap == Min3(263, Len(outb) - q, Len(d) - p)
    IN  CHOOSE k \in 0..cap :
            /\ \A j \in 0..(k - 1) : At(outb, q + j) = At(d, p + j)
            /\ k = cap \/ At(outb, q + k) # At(d, p + k)

\* the largest number of a non-empty set of numbers
C22_Largest(S) == CHOOSE m \in S : \A n \in S : n <= m

\* the longest capped common prefix over the window
C22_Longest(outb, d, p) ==
    C22_Largest({C22_Prefix(outb, q, d, p) : q \in C22_Window(outb)})

\* the most recent position of the window with a common prefix of m bytes
C22_MostRecent(outb, d, p, m) ==
    C22_Largest({q \in C22_Window(outb) : C22_Prefix(outb, q, d, p) = m})

\* the search of the iteration ran
C22_Searched == Len(output_buffer) >= 3 /\ pos + 3 <= Len(data)

\* C22: match finder of pyenc4: in an iteration where a search runs,
\* best_match_len is the longest common prefix of shadow[q:] and data[pos:],
\* capped at 263, over the positions q of the last 4095 committed bytes;
\* best_match_pos is the most recent position attaining it; a match shorter
\* than 3 is never committed.
C22_MatchFinder ==
    [][(mode = "match" /\ encoder = "pyenc4" /\ pc = "search")
          => /\ C22_Searched =>
                    /\ best_match_len' = C22_Longest(output_buffer, data, pos)
                    /\ best_match_len' > 0 =>
                           best_match_pos' =
                               C22_MostRecent(output_buffer, data, pos, best_match_len')
                    /\ best_match_len' = 0 => best_match_pos' = -1
             /\ pc' = "enc_emit" => best_match_len' >= 3]_vars

\* the search ran on 4096 committed bytes whose only occurrence of the next
\* source bytes lies one byte before the window, and found nothing
C22_Witness ==
    /\ mode = "match" /\ encoder = "pyenc4" /\ pc = "enc_loop"
    /\ data = Window4096 /\ Len(output_buffer) = 4096
    /\ pos = 4097 /\ literal_buffer = <<1>>
    /\ Slice(output_buffer, 0, 3) = Slice(data, 4096, 4099)
    /\ best_match_len = 0

\* the pair fits a copy form: ShortCopy (3-6, 0-15), MedCopy (3-6, 0-1023),
\* LongCopy (7-22, 0-1023) or ExtCopy (7-263, 0-4095)
C23_Fits(len, off) ==
    \/ len \in 3..6 /\ off \in 0..15
    \/ len \in 3..6 /\ off \in 0..1023
    \/ len \in 7..22 /\ off \in 0..1023
    \/ len \in 7..263 /\ off \in 0..4095

\* the effective offset of the match at match_pos: committed shadow length
\* plus pending literals, minus the match position, minus 1
C23_Effective(match_pos) ==
    (Len(output_buffer) + Len(literal_buffer)) - match_pos - 1

\* C23: literal fallback: an iteration commits to a copy if and only if the
\* best match has length >= 3 and its (length, effective offset) pair fits a
\* copy form; otherwise it emits nothing, appends exactly the current source
\* byte to the pending literals and advances the source position by 1; the
\* step after a commit appends a copy command.
C23_LiteralFallback ==
    [][/\ (mode = "match" /\ pc = "search") =>
             /\ (pc' = "enc_emit") <=>
                    /\ best_match_len' >= 3
                    /\ C23_Fits(best_match_len', C23_Effective(best_match_pos'))
             /\ (pc' # "enc_emit") =>
                    /\ compressed' = compressed
                    /\ output_buffer' = output_buffer
                    /\ literal_buffer' = Append(literal_buffer, At(data, pos))
                    /\ pos' = pos + 1
             /\ (pc' = "enc_emit") => pos' = pos
       /\ (mode = "match" /\ pc = "enc_emit") =>
             /\ Len(compressed') > Len(compressed)
             /\ SubSeq(compressed', 1, Len(compressed)) = compressed
             /\ FormOf(compressed'[Len(compressed) + 1]) \in CopyForms
             /\ pos' = pos + best_match_len]_vars

\* the best match has 8 bytes at effective offset 4096, beyond every copy
\* form: the current byte joined the two pending literals and nothing was
\* emitted
C23_Witness ==
    /\ mode = "match" /\ pc = "enc_loop"
    /\ data = FarTwo
    /\ best_match_len = 8 /\ final_offset = 4096
    /\ literal_buffer = <<7, 7, 1>>
    /\ pos = 4098
    /\ compressed = <<>>

\* the bytes the encoder step appended to the stream
C24_Emitted == SubSeq(compressed', Len(compressed) + 1, Len(compressed'))

\* the form of the encoder branch that wrote the command byte c: the prefix
\* 0x00, 0x40, 0x80 or 0xC0 it put in the two high bits
C24_Branch(c) ==
    CASE c \div 64 = 0 -> "ShortCopy"
      [] c \div 64 = 1 -> "MedCopy"
      [] c \div 64 = 2 -> "LongCopy"
      [] OTHER -> "ExtCopy"

\* C24: encoder/decoder agreement per instruction: for every (length, offset)
\* pair the encoder emits a copy for, the decoder's field extraction on the
\* emitted 1, 2 or 3 bytes selects the form of the encoder's branch, consumes
\* exactly the emitted bytes, and yields the same length and the same offset.
C24_Agreement ==
    [][(mode = "emit" /\ pc = "emit") =>
          /\ Len(C24_Emitted) \in 1..3
          /\ DecodeInstr(C24_Emitted[1], C24_Emitted, 1)
                 = Instr(C24_Branch(C24_Emitted[1]), TRUE, best_match_len,
                         best_match_offset, Len(C24_Emitted))]_vars

\* the longest copy at the greatest offset: 263 bytes at offset 4095, emitted
\* as 0xD0 0x0F 0xFF
C24_Witness ==
    /\ mode = "emit" /\ pc = "done"
    /\ best_match_len = 263 /\ best_match_offset = 4095
    /\ compressed = <<208, 15, 255>>

\* the input is one the run carries through: compress_data rejects it at once
\* or its length is within MaxEncLen
C25_Runs == TooLarge(data) \/ Len(data) <= MaxEncLen

\* the number of passes of the selector loop for the command byte c: one per
\* set bit counted in second_jump, and the pass that finds the carry clear
C25_SelectorPasses(c) == SecondJump(c) \div 2 + 1

\* C25: termination: every call of compress_data and of decompress_data ends,
\* by returning or by raising; each decoder loop iteration consumes at least
\* one stream byte, the selector loop leaves within 7 passes for every command
\* byte, and each encoder loop iteration advances the source position by at
\* least 1.
C25_Termination ==
    /\ C25_Runs ~> (pc = "done")
    /\ [](\A i \in DOMAIN dec_log : C25_SelectorPasses(dec_log[i].cmd) \in 1..7)
    /\ [][/\ (pc = "dec_loop" /\ pc' = "dec_loop") => in_ptr' >= in_ptr + 1
          /\ (pc = "enc_loop" /\ pc' \in {"enc_loop", "enc_full"}) => pos' >= pos + 1
          /\ (pc = "enc_loop" /\ pc' = "enc_emit") => pos' = pos
          /\ (pc = "enc_emit") => (pc' = "enc_loop" /\ pos' >= pos + 1)
          /\ (pc = "enc_full") => (pc' = "enc_loop" /\ pos' = pos)
          /\ pos' <= Len(data) /\ in_ptr' <= Len(Stream')]_vars

\* a call of decompress_data has ended after a command that took all 7 passes
\* of the selector loop (0xFF)
C25_Witness ==
    /\ mode = "decode" /\ pc = "done"
    /\ Len(dec_log) >= 1
    /\ dec_log[1].cmd = 255
    /\ C25_SelectorPasses(dec_log[1].cmd) = 7
    /\ in_ptr >= 2

\* C26: shadow-buffer invariant: at the head of every loop iteration
\* output_buffer followed by literal_buffer is data[:pos], so every byte a copy
\* appended is the source byte it stands for; when compress_data returns,
\* len(output_buffer) = len(data), the condition under which no size warning
\* is printed.
C26_ShadowBuffer ==
    (mode = "roundtrip" /\ enc_error = "none")
        => /\ pc \in {"enc_loop", "enc_full"} =>
                  /\ output_buffer \o literal_buffer = Slice(data, 0, pos)
                  /\ Len(output_buffer) + Len(literal_buffer) = pos
           /\ pc = "enc_emit" =>
                  /\ output_buffer = Slice(data, 0, pos)
                  /\ Slice(output_buffer, best_match_pos, best_match_pos + best_match_len)
                         = Slice(data, pos, pos + best_match_len)
           /\ Compressed =>
                  /\ Len(output_buffer) = Len(data)
                  /\ output_buffer = data

\* a copy of the three bytes "ABB" was appended to 17 committed bytes and the
\* shadow output is the whole input
C26_Witness ==
    /\ mode = "roundtrip" /\ pc = "enc_loop"
    /\ data = Distinct17 \o <<65, 66, 66>>
    /\ best_match_len = 3 /\ best_match_pos = 0
    /\ pos = 20
    /\ output_buffer = data

(***************************************************************************)
(* The stream read back from the ROM: pydec3 reads a chunk that starts at  *)
(* the stream and goes on with whatever bytes follow it                    *)
(***************************************************************************)
\* longest run of bytes after the stream
MaxTrail == 2

\* the bytes after the stream: none, or opcodes of a copy, of a literal and
\* the erased-ROM byte
TrailingBytes == SeqsUpTo({0, 224, 255}, MaxTrail)

\* compressed_chunk = f.read(65536): the stream and the bytes after it
CompressReadBack == \E t \in TrailingBytes : CompressReturnWith(t)

InitTrailing ==
    /\ Init
    /\ mode = "roundtrip"
    /\ decoder = "pydec3"
    /\ Len(data) <= MaxEncLen

NextTrailing ==
    \/ CompressEnter
    \/ EncCommit
    \/ EncEmit
    \/ EncLiteral
    \/ EncFlushFull
    \/ CompressReadBack
    \/ DecompressEnter
    \/ DecCopy
    \/ DecLiteral
    \/ DecReturn
    \/ Verify

SpecTrailing == InitTrailing /\ [][NextTrailing]_vars

C29_RomUnchangedOnRaise ==
    [][(mode = "inject" /\ encoder = "pyenc4" /\ rom_error' = "ValueError")
           => rom_data' = rom_data]_vars

(***************************************************************************)
(* The Japanese character codes of textpatch3.py (and textpatch2.py): the  *)
(* code encode_text_block emits for a font-table index, and the index      *)
(* dump_all_text looks a code up at                                        *)
(***************************************************************************)
JP_KANA_OFFSET == 24

JP_KANJI_OFFSET == 23

\* FONT_MAP_STRING_JP_alt.find('案')
FIRST_KANJI_INDEX == 249

JP_KANJI_START_CODE == FIRST_KANJI_INDEX + JP_KANJI_OFFSET

\* len(FONT_MAP_STRING_JP_alt)
FontMapLen == 489

\* the keys of CHAR_MAP_JP
FontIndexes == 0..(FontMapLen - 1)

\* encode_text_block, Japanese block: the split offset on the index
EncodeCode(i) ==
    IF i >= FIRST_KANJI_INDEX THEN i + JP_KANJI_OFFSET ELSE i + JP_KANA_OFFSET

\* dump_all_text, Japanese block: the split offset on the code
LookupCode(code) ==
    IF code >= JP_KANJI_START_CODE THEN code - JP_KANJI_OFFSET
    ELSE code - JP_KANA_OFFSET

InitText ==
    /\ mode = "text"
    /\ pc = "encode_text"
    /\ encoder = "none"
    /\ decoder = "none"
    /\ EncIdle
    /\ compressed_data = <<>>
    /\ decompressed_size = 0
    /\ in_ptr = 0
    /\ out_buffer = <<>>
    /\ out_ptr = 0
    /\ dec_log = <<>>
    /\ dec_result = NoResult
    /\ dec_error = "none"
    /\ prev_call = NoCall
    /\ rom_data = <<>>
    /\ rom_error = "none"
    /\ rom_items = 0
    /\ char_index \in FontIndexes
    /\ final_code = -1
    /\ lookup_code = -1

TextFrame ==
    /\ UNCHANGED <<mode, encoder, decoder, verified, prev_call, rom_data,
                   rom_error, rom_items, char_index>>
    /\ UNCHANGED encVars
    /\ UNCHANGED decVars

\* encode_text_block on the character of index char_index
EncodeChar ==
    /\ mode = "text" /\ pc = "encode_text"
    /\ final_code' = EncodeCode(char_index)
    /\ pc' = "dump_text"
    /\ UNCHANGED lookup_code
    /\ TextFrame

\* dump_all_text on the code written into the ROM
DumpChar ==
    /\ mode = "text" /\ pc = "dump_text"
    /\ lookup_code' = LookupCode(final_code)
    /\ pc' = "done"
    /\ UNCHANGED final_code
    /\ TextFrame

NextText == EncodeChar \/ DumpChar

SpecText == InitText /\ [][NextText]_vars

\* C30: Japanese text code round trip: the code emitted for a font-table
\* index i is looked up by the dump at index i, and no other index is encoded
\* to the same code.
C30_CodeRoundTrip ==
    /\ (mode = "text" /\ pc = "done") => lookup_code = char_index
    /\ (mode = "text" /\ pc \in {"dump_text", "done"})
           => \A j \in FontIndexes : EncodeCode(j) = final_code => j = char_index

\* the two searches end with the same match, when either finds one of three
\* bytes or more
C28_Same(m4, m5) == (m4.len >= 3 \/ m5.len >= 3) => m4 = m5

\* C28: the two compressors are equivalent: at every source position the
\* rfind-based search of pyenc5 and the backward scan of pyenc4 select the same
\* best match position and length, so both return the same stream.
C28_SameSelection ==
    (mode = "roundtrip" /\ InEncLoop)
        => C28_Same(FindMatch4(output_buffer, data, pos),
                    FindMatch5(output_buffer, data, pos))

====
